---------------------------- MODULE Spec2Model ----------------------------
(***************************************************************************)
(* Model of the structured chunking pipeline of source_code/chunker_core.py *)
(* (HeadingExtractor and StructuredChunker).                                *)
(*                                                                          *)
(* A Python str is a sequence of one-character strings; "\n" is the line    *)
(* break and " " the blank.  Every string operation of                      *)
(* the source (split, join, strip, replace, len, startswith, the two        *)
(* regular expressions) is an operator on such sequences, computed the way  *)
(* CPython computes it.                                                     *)
(***************************************************************************)
EXTENDS Integers, Sequences, FiniteSets, TLC

(***************************************************************************)
(* Bounds of the model.                                                     *)
(***************************************************************************)
MaxLines == 4

(***************************************************************************)
(* str primitives                                                           *)
(***************************************************************************)
NL == "\n"
SP == " "
Whitespace == {SP, NL}

Min(a, b) == IF a <= b THEN a ELSE b
Max(a, b) == IF a >= b THEN a ELSE b

\* s[a:b] of Python for 0 <= a, b (0-based, end exclusive, clipped to the string).
Slice(s, a, b) == SubSeq(s, a + 1, Min(b, Len(s)))

\* s.startswith(p, at): p occurs in s at 0-based offset at.
MatchAt(s, p, at) ==
    /\ at + Len(p) <= Len(s)
    /\ \A k \in 1..Len(p) : s[at + k] = p[k]

StartsWith(s, p) == MatchAt(s, p, 0)
EndsWith(s, p) == Len(p) <= Len(s) /\ MatchAt(s, p, Len(s) - Len(p))

\* s.find(p, from): the least 0-based offset >= from at which p occurs, or -1.
Find(s, p, from) ==
    LET hits == {at \in from..(Len(s) - Len(p)) : MatchAt(s, p, at)}
    IN  IF hits = {} THEN -1 ELSE CHOOSE at \in hits : \A o \in hits : at <= o

Contains(s, p) == Find(s, p, 0) >= 0

\* s.split(sep) for a non-empty sep: left to right, non-overlapping.
RECURSIVE StrSplit(_, _)
StrSplit(s, sep) ==
    LET at == Find(s, sep, 0)
    IN  IF at < 0 THEN <<s>>
        ELSE <<Slice(s, 0, at)>> \o StrSplit(Slice(s, at + Len(sep), Len(s)), sep)

\* sep.join(parts)
RECURSIVE StrJoin(_, _)
StrJoin(parts, sep) ==
    IF parts = <<>> THEN <<>>
    ELSE IF Len(parts) = 1 THEN parts[1]
    ELSE parts[1] \o sep \o StrJoin(Tail(parts), sep)

\* s.strip(): leading and trailing whitespace removed.
Strip(s) ==
    LET solid == {k \in 1..Len(s) : s[k] \notin Whitespace}
    IN  IF solid = {} THEN <<>>
        ELSE LET lo == CHOOSE k \in solid : \A o \in solid : k <= o
                 hi == CHOOSE k \in solid : \A o \in solid : k >= o
             IN  SubSeq(s, lo, hi)

\* s.replace(old, new, 1): the first occurrence only.
ReplaceFirst(s, old, new) ==
    LET at == Find(s, old, 0)
    IN  IF at < 0 THEN s
        ELSE Slice(s, 0, at) \o new \o Slice(s, at + Len(old), Len(s))

\* s.replace(old, new): every occurrence, left to right, non-overlapping.
RECURSIVE ReplaceAll(_, _, _)
ReplaceAll(s, old, new) ==
    LET at == Find(s, old, 0)
    IN  IF at < 0 THEN s
        ELSE Slice(s, 0, at) \o new
             \o ReplaceAll(Slice(s, at + Len(old), Len(s)), old, new)

\* The two blank-line joiner and the line joiner used throughout.
NLNL == <<NL, NL>>
NL1 == <<NL>>

(***************************************************************************)
(* HeadingExtractor                                                         *)
(***************************************************************************)
MaxHeadingLevel == 6
HeadScanLines == 5

\* The number of leading characters of s that lie in set.
RECURSIVE RunLength(_, _)
RunLength(s, set) ==
    IF s = <<>> \/ Head(s) \notin set THEN 0 ELSE 1 + RunLength(Tail(s), set)

\* re.match(r'^(#{1,6})\s+(.+)$', line.strip()): 1..6 '#', then whitespace,
\* then the title.  The stripped line has no trailing whitespace, so the
\* greedy \s+ takes the whole run and group(2) is the rest, which must be
\* non-empty and ('.' excludes the line break) free of "\n".
\* level = len(group(1)), title = group(2).strip().
HeadingMatch(line) ==
    LET st     == Strip(line)
        hashes == RunLength(st, {"#"})
        after  == Slice(st, hashes, Len(st))
        blanks == RunLength(after, Whitespace)
        rest   == Slice(after, blanks, Len(after))
    IN  IF /\ hashes >= 1
           /\ hashes <= MaxHeadingLevel
           /\ blanks >= 1
           /\ rest # <<>>
           /\ ~Contains(rest, NL1)
        THEN [matched |-> TRUE, level |-> hashes, title |-> Strip(rest)]
        ELSE [matched |-> FALSE, level |-> 0, title |-> <<>>]

\* HeadingExtractor.parse_headings: [(line_index, level, title), ...] with
\* 0-based line_index, in line order.
RECURSIVE HeadingsFrom(_, _)
HeadingsFrom(lines, i) ==
    IF i > Len(lines) THEN <<>>
    ELSE LET m == HeadingMatch(lines[i])
         IN  (IF Strip(lines[i]) # <<>> /\ m.matched
              THEN <<[idx |-> i - 1, level |-> m.level, title |-> m.title]>>
              ELSE <<>>)
             \o HeadingsFrom(lines, i + 1)

parse_headings(text) == HeadingsFrom(StrSplit(text, NL1), 1)

NoHeading == [has_heading |-> FALSE, heading |-> <<>>, level |-> 0]

\* HeadingExtractor.extract_heading_from_chunk: the first ATX match among the
\* first 5 lines of the chunk.
RECURSIVE FirstHeadingIn(_)
FirstHeadingIn(lines) ==
    IF lines = <<>> THEN NoHeading
    ELSE LET m == HeadingMatch(lines[1])
         IN  IF m.matched
             THEN [has_heading |-> TRUE, heading |-> m.title, level |-> m.level]
             ELSE FirstHeadingIn(Tail(lines))

extract_heading_from_chunk(chunk_text) ==
    FirstHeadingIn(Slice(StrSplit(chunk_text, NL1), 0, HeadScanLines))

\* A chunk candidate: {'content': ..., 'heading_info': ...}.
Candidate(content) ==
    [content |-> content, heading_info |-> extract_heading_from_chunk(content)]

(***************************************************************************)
(* StructuredChunker: code-block protection                                 *)
(***************************************************************************)
\* The backtick is written "'" here (a string literal of the module cannot
\* hold a backtick); no other character of the model is "'".
BT == "'"
Fence == <<BT, BT, BT>>

Digit(d) == <<"0", "1", "2", "3", "4", "5", "6", "7", "8", "9">>[d + 1]

RECURSIVE Decimal(_)
Decimal(n) == IF n < 10 THEN <<Digit(n)>> ELSE Decimal(n \div 10) \o <<Digit(n % 10)>>

\* f"__CODE_BLOCK_{block_id}__"
Placeholder(block_id) ==
    <<"_", "_", "C", "O", "D", "E", "_", "B", "L", "O", "C", "K", "_">>
    \o Decimal(block_id) \o <<"_", "_">>

\* re.finditer(r'```[\s\S]*?```', text): the non-overlapping matches from
\* offset from on, leftmost first; each runs from an opening fence to the
\* first fence that starts at least 3 characters later.
RECURSIVE CodeBlocksFrom(_, _)
CodeBlocksFrom(text, from) ==
    LET open  == Find(text, Fence, from)
        close == IF open < 0 THEN -1 ELSE Find(text, Fence, open + 3)
    IN  IF open < 0 \/ close < 0 THEN <<>>
        ELSE <<Slice(text, open, close + 3)>> \o CodeBlocksFrom(text, close + 3)

CodeBlocks(text) == CodeBlocksFrom(text, 0)

\* _protect_code_blocks: (protected_text, block_map); block_map is kept as
\* the sequence of (placeholder, block) pairs in insertion order.
RECURSIVE ProtectLoop(_, _, _)
ProtectLoop(protected_text, blocks, block_id) ==
    IF block_id >= Len(blocks) THEN protected_text
    ELSE ProtectLoop(
            ReplaceFirst(protected_text, blocks[block_id + 1], Placeholder(block_id)),
            blocks, block_id + 1)

protect_code_blocks(text) ==
    LET blocks == CodeBlocks(text)
    IN  [protected_text |-> ProtectLoop(text, blocks, 0),
         block_map |-> [k \in 1..Len(blocks) |->
                          [placeholder |-> Placeholder(k - 1), code_block |-> blocks[k]]]]

\* _restore_code_blocks: every placeholder of the map, in insertion order,
\* replaced wherever it occurs.
RECURSIVE restore_code_blocks(_, _)
restore_code_blocks(text, block_map) ==
    IF block_map = <<>> THEN text
    ELSE restore_code_blocks(
            ReplaceAll(text, block_map[1].placeholder, block_map[1].code_block),
            Tail(block_map))

(***************************************************************************)
(* StructuredChunker: splitting                                             *)
(***************************************************************************)
\* The flush used by both splitters: the buffer joined by blank lines, with
\* the heading found in the joined text.
Flushed(current_chunk) == Candidate(StrJoin(current_chunk, NLNL))

\* The loop of _split_by_paragraph over the paragraphs still to process, and
\* the final flush.  "and current_chunk" is the test for a non-empty list.
RECURSIVE ParagraphLoop(_, _, _, _, _, _)
ParagraphLoop(paragraphs, block_map, size, chunks, current_chunk, current_size) ==
    IF paragraphs = <<>>
    THEN IF current_chunk # <<>> THEN Append(chunks, Flushed(current_chunk)) ELSE chunks
    ELSE LET para_restored == restore_code_blocks(Head(paragraphs), block_map)
             para_size     == Len(para_restored)
         IN  IF current_size + para_size > size /\ current_chunk # <<>>
             THEN ParagraphLoop(Tail(paragraphs), block_map, size,
                                Append(chunks, Flushed(current_chunk)),
                                <<para_restored>>, para_size)
             ELSE ParagraphLoop(Tail(paragraphs), block_map, size, chunks,
                                Append(current_chunk, para_restored),
                                current_size + para_size)

\* _split_by_paragraph with self.chunk_size = size.
split_by_paragraph(t, size) ==
    LET p == protect_code_blocks(t)
    IN  ParagraphLoop(StrSplit(p.protected_text, NLNL), p.block_map, size,
                      <<>>, <<>>, 0)

\* The end_line of heading i (1-based position in hs): the line of the next
\* heading of the same or a higher rank, or len(lines).
EndLine(hs, i, nlines) ==
    LET later == {j \in (i + 1)..Len(hs) : hs[j].level <= hs[i].level}
    IN  IF later = {} THEN nlines
        ELSE hs[CHOOSE j \in later : \A o \in later : j <= o].idx

\* '\n'.join(lines[start_line:end_line]).strip()
SectionText(lines, hs, i) ==
    Strip(StrJoin(Slice(lines, hs[i].idx, EndLine(hs, i, Len(lines))), NL1))

\* The loop of _split_by_headings from heading i on, and the final flush.
RECURSIVE HeadingLoop(_, _, _, _, _, _, _)
HeadingLoop(lines, hs, i, size, chunks, current_chunk, current_size) ==
    IF i > Len(hs)
    THEN IF current_chunk # <<>> THEN Append(chunks, Flushed(current_chunk)) ELSE chunks
    ELSE LET section_text == SectionText(lines, hs, i)
             section_size == Len(section_text)
             flushed      == IF current_chunk # <<>>
                             THEN Append(chunks, Flushed(current_chunk))
                             ELSE chunks
         IN  IF section_size <= size
             THEN IF current_size + section_size <= size
                  THEN HeadingLoop(lines, hs, i + 1, size, chunks,
                                   Append(current_chunk, section_text),
                                   current_size + section_size)
                  ELSE HeadingLoop(lines, hs, i + 1, size, flushed,
                                   <<section_text>>, section_size)
             ELSE HeadingLoop(lines, hs, i + 1, size,
                              flushed \o split_by_paragraph(section_text, size),
                              IF current_chunk # <<>> THEN <<>> ELSE current_chunk,
                              IF current_chunk # <<>> THEN 0 ELSE current_size)

\* _split_by_headings with self.chunk_size = size.
split_by_headings(t, hs, size) ==
    HeadingLoop(StrSplit(t, NL1), hs, 1, size, <<>>, <<>>, 0)

(***************************************************************************)
(* StructuredChunker: merging and overlap                                   *)
(***************************************************************************)
\* The loop of _merge_short_chunks.  The accumulator keeps its own
\* heading_info; only its content grows.
RECURSIVE MergeLoop(_, _, _, _)
MergeLoop(rest, size, merged, current_chunk) ==
    IF rest = <<>> THEN Append(merged, current_chunk)
    ELSE LET next_chunk   == Head(rest)
             current_size == Len(current_chunk.content)
             next_size    == Len(next_chunk.content)
         IN  IF current_size + next_size <= size
             THEN MergeLoop(Tail(rest), size, merged,
                            [current_chunk EXCEPT
                               !.content = current_chunk.content \o NLNL
                                           \o next_chunk.content])
             ELSE MergeLoop(Tail(rest), size, Append(merged, current_chunk), next_chunk)

\* The merge pass with the budget test written '<' in place of '<='.
RECURSIVE MergeLoopStrict(_, _, _, _)
MergeLoopStrict(rest, size, merged, current_chunk) ==
    IF rest = <<>> THEN Append(merged, current_chunk)
    ELSE LET next_chunk == Head(rest)
         IN  IF Len(current_chunk.content) + Len(next_chunk.content) < size
             THEN MergeLoopStrict(Tail(rest), size, merged,
                                  [current_chunk EXCEPT
                                     !.content = current_chunk.content \o NLNL
                                                 \o next_chunk.content])
             ELSE MergeLoopStrict(Tail(rest), size, Append(merged, current_chunk),
                                  next_chunk)

merge_short_chunks_strict(cs, size) ==
    IF cs = <<>> THEN <<>> ELSE MergeLoopStrict(Tail(cs), size, <<>>, cs[1])

\* _merge_short_chunks with self.chunk_size = size.
merge_short_chunks(cs, size) ==
    IF cs = <<>> THEN <<>> ELSE MergeLoop(Tail(cs), size, <<>>, cs[1])

\* prev_lines[-k:] if len(prev_lines) > k else prev_lines   (k > 0)
TailLines(lines, k) ==
    IF Len(lines) > k THEN SubSeq(lines, Len(lines) - k + 1, Len(lines)) ELSE lines

\* next_lines[:k] if len(next_lines) > k else next_lines
HeadLines(lines, k) ==
    IF Len(lines) > k THEN SubSeq(lines, 1, k) ELSE lines

\* The content _apply_overlap gives candidate i (1-based) of cs.
OverlappedContent(cs, i, k) ==
    LET lead  == IF i > 1
                 THEN StrJoin(TailLines(StrSplit(cs[i - 1].content, NL1), k), NL1) \o NLNL
                 ELSE <<>>
        trail == IF i < Len(cs)
                 THEN NLNL \o StrJoin(HeadLines(StrSplit(cs[i + 1].content, NL1), k), NL1)
                 ELSE <<>>
    IN  lead \o cs[i].content \o trail

\* The overlap pass reading the list it is writing: candidate i takes its
\* leading lines from the already overlapped candidate i - 1.
RECURSIVE CascadeFrom(_, _, _, _)
CascadeFrom(cs, k, i, overlapped) ==
    IF i > Len(cs) THEN overlapped
    ELSE LET seen == [j \in 1..Len(cs) |-> IF j < i THEN overlapped[j] ELSE cs[j]]
         IN  CascadeFrom(cs, k, i + 1,
                         Append(overlapped,
                                [cs[i] EXCEPT !.content = OverlappedContent(seen, i, k)]))

apply_overlap_cascading(cs, k) ==
    IF Len(cs) <= 1 THEN cs ELSE CascadeFrom(cs, k, 1, <<>>)

\* _apply_overlap with self.chunk_overlap = k: every candidate is rebuilt
\* from the list passed in, {**chunk, 'content': content}.
apply_overlap(cs, k) ==
    IF Len(cs) <= 1 THEN cs
    ELSE [i \in 1..Len(cs) |-> [cs[i] EXCEPT !.content = OverlappedContent(cs, i, k)]]

(***************************************************************************)
(* StructuredChunker: heading paths                                         *)
(***************************************************************************)
\* The test of lines 270-277 for parent p of target t (positions in hs).
IsDirectParent(hs, p, t) ==
    /\ hs[p].idx < hs[t].idx
    /\ hs[p].level < hs[t].level
    /\ ~\E c \in 1..Len(hs) :
          /\ hs[p].idx < hs[c].idx /\ hs[c].idx < hs[t].idx
          /\ hs[p].level < hs[c].level /\ hs[c].level < hs[t].level

RECURSIVE ParentsFrom(_, _, _)
ParentsFrom(hs, p, t) ==
    IF p > Len(hs) THEN <<>>
    ELSE (IF IsDirectParent(hs, p, t)
          THEN <<[level |-> hs[p].level, title |-> hs[p].title]>>
          ELSE <<>>)
         \o ParentsFrom(hs, p + 1, t)

\* _build_heading_path: the path of the first heading of all_headings with
\* the level and title of heading_info; content and text_lines are not read.
build_heading_path(heading_info, all_headings) ==
    IF ~heading_info.has_heading THEN <<>>
    ELSE LET same == {t \in 1..Len(all_headings) :
                        /\ all_headings[t].title = heading_info.heading
                        /\ all_headings[t].level = heading_info.level}
         IN  IF same = {}
             THEN <<[level |-> heading_info.level, title |-> heading_info.heading]>>
             ELSE LET t == CHOOSE x \in same : \A o \in same : x <= o
                  IN  ParentsFrom(all_headings, 1, t)
                      \o <<[level |-> all_headings[t].level,
                            title |-> all_headings[t].title]>>

(***************************************************************************)
(* StructuredChunker.chunk_by_headings: the breadcrumb walk                 *)
(***************************************************************************)
\* The file_name and file_path arguments of the call.
FileName == <<"d", ".", "m", "d">>
FilePath == <<"a", "/", "d", ".", "m", "d">>

\* Path(file_path).suffix: the final component's last dot and what follows,
\* unless that dot is the component's first or last character.
PathSuffix(path) ==
    LET slashes == {k \in 1..Len(path) : path[k] = "/"}
        from    == IF slashes = {} THEN 0
                   ELSE CHOOSE k \in slashes : \A o \in slashes : k >= o
        name    == SubSeq(path, from + 1, Len(path))
        dots    == {k \in 1..Len(name) : name[k] = "."}
        dot     == IF dots = {} THEN 0 ELSE CHOOSE k \in dots : \A o \in dots : k >= o
    IN  IF 1 < dot /\ dot < Len(name) THEN SubSeq(name, dot, Len(name)) ELSE <<>>

\* Path(file_path).suffix[1:] if Path(file_path).suffix else 'txt'
FormatOf(path) ==
    IF PathSuffix(path) # <<>> THEN Tail(PathSuffix(path)) ELSE <<"t", "x", "t">>

\* ' > '.join / ' | '.join of the titles of a path.
Titles(path) == [k \in 1..Len(path) |-> path[k].title]
Breadcrumb(path) == StrJoin(Titles(path), <<SP, ">", SP>>)
ParentHeader(path) == StrJoin(Titles(path), <<SP, "|", SP>>)

ContextMarker == <<"[", "C", "o", "n", "t", "e", "x", "t", ":">>

\* f"[Context: {file_name} > {breadcrumb}]"
ContextPrefix(file_name, path) ==
    ContextMarker \o <<SP>> \o file_name \o <<SP, ">", SP>> \o Breadcrumb(path) \o <<"]">>

\* Lines 105: the chunk has no heading of its own and a previous path exists.
Inherits(heading_info, previous) == ~heading_info.has_heading /\ previous # <<>>

\* Lines 105-111: heading_info after the inheritance test.
InheritedInfo(heading_info, previous) ==
    IF Inherits(heading_info, previous)
    THEN [has_heading |-> TRUE,
          heading |-> previous[Len(previous)].title,
          level |-> previous[Len(previous)].level]
    ELSE heading_info

\* The context injection with the marker looked for in the content as it
\* stands, leading whitespace included.
InjectedContentUnstripped(content, heading_info, previous) ==
    IF Inherits(heading_info, previous) /\ ~StartsWith(content, ContextMarker)
    THEN ContextPrefix(FileName, previous) \o NLNL \o content
    ELSE content

\* Lines 113-117: content after the context injection.
InjectedContent(content, heading_info, previous) ==
    IF Inherits(heading_info, previous) /\ ~StartsWith(Strip(content), ContextMarker)
    THEN ContextPrefix(FileName, previous) \o NLNL \o content
    ELSE content

\* The metadata with chunk_id counted from 1.
BuildMetadataOneBased(i, heading_info, current_heading_path, previous) ==
    [format            |-> FormatOf(FilePath),
     source_file       |-> FilePath,
     chunk_id          |-> i + 1,
     inherited_heading |-> ~heading_info.has_heading /\ previous # <<>>,
     has_heading_keys  |-> heading_info.has_heading,
     heading           |-> IF heading_info.has_heading THEN heading_info.heading ELSE <<>>,
     heading_level     |-> IF heading_info.has_heading THEN heading_info.level ELSE 0,
     has_breadcrumb    |-> heading_info.has_heading /\ current_heading_path # <<>>,
     breadcrumb        |-> IF heading_info.has_heading
                           THEN Breadcrumb(current_heading_path) ELSE <<>>,
     parent_header     |-> IF heading_info.has_heading
                           THEN ParentHeader(current_heading_path) ELSE <<>>]

\* Lines 120-134: the metadata of chunk i (0-based), from the heading_info
\* left by the inheritance test, the path built before it and the previous
\* path.  A key the source does not set is absent: has_heading_keys and
\* has_breadcrumb say which keys are there.
BuildMetadata(i, heading_info, current_heading_path, previous) ==
    [format            |-> FormatOf(FilePath),
     source_file       |-> FilePath,
     chunk_id          |-> i,
     inherited_heading |-> ~heading_info.has_heading /\ previous # <<>>,
     has_heading_keys  |-> heading_info.has_heading,
     heading           |-> IF heading_info.has_heading THEN heading_info.heading ELSE <<>>,
     heading_level     |-> IF heading_info.has_heading THEN heading_info.level ELSE 0,
     has_breadcrumb    |-> heading_info.has_heading /\ current_heading_path # <<>>,
     breadcrumb        |-> IF heading_info.has_heading
                           THEN Breadcrumb(current_heading_path) ELSE <<>>,
     parent_header     |-> IF heading_info.has_heading
                           THEN ParentHeader(current_heading_path) ELSE <<>>]

\* One iteration of the loop of lines 91-143 for candidate chunk_data at
\* 0-based index i: the final chunk and the new previous_heading_path.
WalkStep(i, chunk_data, previous, all_headings) ==
    LET own     == chunk_data.heading_info
        current == build_heading_path(own, all_headings)
        info    == InheritedInfo(own, previous)
    IN  [chunk |-> [content  |-> InjectedContent(chunk_data.content, own, previous),
                    metadata |-> BuildMetadata(i, info, current, previous)],
         previous |-> IF info.has_heading /\ current # <<>> THEN current ELSE previous]

(***************************************************************************)
(* One call of chunk_by_headings as a state machine                         *)
(***************************************************************************)
VARIABLES
    text,                   \* the text argument
    headings,               \* the headings argument
    chunk_size,             \* self.chunk_size
    chunk_overlap,          \* self.chunk_overlap
    pc,                     \* the statement the call is at
    split_out,              \* chunks_data after lines 75-78
    merged_out,             \* chunks_data after line 81
    chunks_data,            \* chunks_data after lines 84-85
    final_chunks,           \* final_chunks; its length is the loop index i
    previous_heading_path   \* <<>> stands for None: the source never assigns
                            \* it an empty list (line 142)

\* The state of the other parts of the repository, each with a specification
\* of its own further down; they do not move while a single call of
\* chunk_by_headings runs.
VARIABLES
    calls                   \* the frames of the calls that share one chunker

\* ReActCore.run (react_core.py).
VARIABLES
    max_iterations,         \* self.max_iterations
    allowed_tools,          \* the allowed_tools argument; [given |-> FALSE] is None
    history,                \* history
    iteration,              \* the iterations of the loop of line 29 begun so far
    react_pc,               \* the statement run is at
    thought,                \* thought
    action_result,          \* action_result
    react_result,           \* the value run returns
    invoked,                \* the names of the tools called so far, in order
    prompts                 \* the prompts given to the LLM so far, in order

reactVars == <<max_iterations, history, iteration, react_pc, thought, action_result,
               react_result>>

\* The tool permissions and the calls of tools and LLM, which ReActCore and
\* ExecutorCore both use.
toolVars == <<allowed_tools, invoked, prompts>>

NoTools == [given |-> FALSE, names |-> {}]

NoAction == [type |-> "none"]

ReactIdle ==
    /\ max_iterations = 0
    /\ history = <<>>
    /\ iteration = 0
    /\ react_pc = "idle"
    /\ thought = <<>>
    /\ action_result = NoAction
    /\ react_result = <<>>

ToolsIdle ==
    /\ allowed_tools = NoTools
    /\ invoked = <<>>
    /\ prompts = <<>>

\* ExecutorCore.execute (executor_core.py).
VARIABLES
    tasks,                  \* the tasks argument
    task_index,             \* the tasks the loop of line 30 has taken so far
    outputs,                \* outputs
    tool_texts,             \* tool_texts
    executor_pc             \* the statement execute is at

executorVars == <<tasks, task_index, outputs, tool_texts, executor_pc>>

ExecutorIdle ==
    /\ tasks = <<>>
    /\ task_index = 0
    /\ outputs = <<>>
    /\ tool_texts = <<>>
    /\ executor_pc = "idle"

\* DynamicMemoryCore (memory_core.py).
VARIABLES
    memory,                 \* self: the attributes __init__ assigns
    user_input,             \* the user_input argument
    messages,               \* the messages argument
    memory_pc,              \* the statement build_context_prompt is at
    build,                  \* the locals of build_context_prompt
    context_text,           \* the returned context_text
    metadata                \* the returned metadata

memoryVars == <<memory, user_input, messages, memory_pc, build, context_text, metadata>>

NoMemory ==
    [max_context_tokens |-> 0, system_prompt_tokens |-> 0, reserved_tokens |-> 0,
     available_tokens |-> 0, near_field_turns |-> 0, llm |-> FALSE]

NoBuild ==
    [remaining_tokens |-> 0, near_field_pairs |-> <<>>, far_field_pairs |-> <<>>,
     near_field_tokens |-> 0, selected_pairs |-> <<>>, selected_tokens |-> 0,
     unvisited |-> 0]

NoMetadata == [strategy |-> "none", messages_tokens |-> 0, remaining_tokens |-> 0]

MemoryIdle ==
    /\ memory = NoMemory
    /\ user_input = <<>>
    /\ messages = <<>>
    /\ memory_pc = "idle"
    /\ build = NoBuild
    /\ context_text = <<>>
    /\ metadata = NoMetadata

agents == <<reactVars, toolVars, executorVars, memoryVars>>

AgentsIdle == ReactIdle /\ ToolsIdle /\ ExecutorIdle /\ MemoryIdle

outside == <<calls, agents>>

OutsideIdle == calls = <<>> /\ AgentsIdle

vars == <<text, headings, chunk_size, chunk_overlap, pc, split_out, merged_out,
          chunks_data, final_chunks, previous_heading_path, outside>>

\* The lines documents are drawn from: three ranks of ATX heading, a body
\* line, a blank line and a code fence.
Lines ==
    {<<"#", SP, "A">>, <<"#", "#", SP, "B">>, <<"#", "#", "#", SP, "C">>,
     <<"x">>, <<>>, Fence}

Documents ==
    {StrJoin(ls, NL1) : ls \in UNION {[1..n -> Lines] : n \in 1..MaxLines}}

\* Budgets: negative, zero, room for one short line, room for two lines, and
\* the default of the source.
ChunkSizes == {-1, 0, 4, 9, 1000}
Overlaps == {0, 1, 2}

Start(t, size, overlap) ==
    /\ text = t
    /\ headings = parse_headings(t)
    /\ chunk_size = size
    /\ chunk_overlap = overlap
    /\ pc = "split"
    /\ split_out = <<>>
    /\ merged_out = <<>>
    /\ chunks_data = <<>>
    /\ final_chunks = <<>>
    /\ previous_heading_path = <<>>
    /\ OutsideIdle

Init ==
    \E t \in Documents, size \in ChunkSizes, overlap \in Overlaps :
        Start(t, size, overlap)

\* Lines 75-78.
Split ==
    /\ pc = "split"
    /\ split_out' = IF headings = <<>>
                    THEN split_by_paragraph(text, chunk_size)
                    ELSE split_by_headings(text, headings, chunk_size)
    /\ pc' = "merge"
    /\ UNCHANGED <<text, headings, chunk_size, chunk_overlap, merged_out,
                   chunks_data, final_chunks, previous_heading_path>>
    /\ UNCHANGED outside

\* Line 81.
Merge ==
    /\ pc = "merge"
    /\ merged_out' = merge_short_chunks(split_out, chunk_size)
    /\ pc' = "overlap"
    /\ UNCHANGED <<text, headings, chunk_size, chunk_overlap, split_out,
                   chunks_data, final_chunks, previous_heading_path>>
    /\ UNCHANGED outside

\* Lines 84-89.
Overlap ==
    /\ pc = "overlap"
    /\ chunks_data' = IF chunk_overlap > 0 /\ Len(merged_out) > 1
                      THEN apply_overlap(merged_out, chunk_overlap)
                      ELSE merged_out
    /\ final_chunks' = <<>>
    /\ previous_heading_path' = <<>>
    /\ pc' = "walk"
    /\ UNCHANGED <<text, headings, chunk_size, chunk_overlap, split_out, merged_out>>
    /\ UNCHANGED outside

\* One iteration of the loop of lines 91-143.
Walk ==
    /\ pc = "walk"
    /\ Len(final_chunks) < Len(chunks_data)
    /\ LET i    == Len(final_chunks)
           step == WalkStep(i, chunks_data[i + 1], previous_heading_path, headings)
       IN  /\ final_chunks' = Append(final_chunks, step.chunk)
           /\ previous_heading_path' = step.previous
    /\ UNCHANGED <<text, headings, chunk_size, chunk_overlap, pc, split_out,
                   merged_out, chunks_data>>
    /\ UNCHANGED outside

\* Line 145.
Return ==
    /\ pc = "walk"
    /\ Len(final_chunks) = Len(chunks_data)
    /\ pc' = "done"
    /\ UNCHANGED <<text, headings, chunk_size, chunk_overlap, split_out, merged_out,
                   chunks_data, final_chunks, previous_heading_path>>
    /\ UNCHANGED outside

Next == Split \/ Merge \/ Overlap \/ Walk \/ Return

Spec == Init /\ [][Next]_vars

(***************************************************************************)
(* The nested-chain documents: '# A', '## B', '### C', each followed by a   *)
(* short body, chunk_overlap = 0 and a budget above the size of the text.   *)
(***************************************************************************)
Bodies == {<<"x">>, <<"x", "x">>, <<"x", NL, "x">>}

NestedDoc(b1, b2, b3) ==
    StrJoin(<<<<"#", SP, "A">>, b1, <<"#", "#", SP, "B">>, b2,
              <<"#", "#", "#", SP, "C">>, b3>>, NL1)

\* Budgets above len(text): the next integer, two and three times the text,
\* and the default of the source.
NestedSizes(t) == {Len(t) + 1, 2 * Len(t), 3 * Len(t), 1000}

InitNested ==
    \E b1 \in Bodies, b2 \in Bodies, b3 \in Bodies :
        \E size \in NestedSizes(NestedDoc(b1, b2, b3)) :
            Start(NestedDoc(b1, b2, b3), size, 0)

SpecNested == InitNested /\ [][Next]_vars

(***************************************************************************)
(* Vocabulary of the properties                                             *)
(***************************************************************************)
Done == pc = "done"

\* The lines of s that are not blank.
RECURSIVE SolidLines(_)
SolidLines(ls) ==
    IF ls = <<>> THEN <<>>
    ELSE (IF Strip(Head(ls)) # <<>> THEN <<Head(ls)>> ELSE <<>>) \o SolidLines(Tail(ls))

Contents(cs) == [k \in 1..Len(cs) |-> cs[k].content]

\* The last k and the first k lines of s (all of them if there are fewer).
LastKLines(s, k) ==
    LET ls == StrSplit(s, NL1)
    IN  StrJoin(SubSeq(ls, Max(1, Len(ls) - k + 1), Len(ls)), NL1)

FirstKLines(s, k) ==
    LET ls == StrSplit(s, NL1)
    IN  StrJoin(SubSeq(ls, 1, Min(k, Len(ls))), NL1)

\* What overlap alone makes of pre-overlap candidate i: the neighbours'
\* boundary lines around its own content, joined by blank lines.
WithNeighbours(pre, i, k) ==
    (IF i > 1 THEN LastKLines(pre[i - 1].content, k) \o NLNL ELSE <<>>)
    \o pre[i].content
    \o (IF i < Len(pre) THEN NLNL \o FirstKLines(pre[i + 1].content, k) ELSE <<>>)

\* line is one '[Context: ...]' line.
IsContextLine(line) ==
    /\ StartsWith(line, ContextMarker)
    /\ ~Contains(line, NL1)
    /\ line[Len(line)] = "]"

\* Final chunk i carries an injected context line.
Injected(i) == final_chunks[i].content # chunks_data[i].content

(***************************************************************************)
(* C1: with the injected context lines and the overlap additions removed,   *)
(* the chunk contents concatenated in order have exactly the non-blank      *)
(* lines of the text, in order: none lost, none twice.  (What is left of a  *)
(* final chunk after the removal is the merged candidate's content, by C8.) *)
(***************************************************************************)
C1_RoundTrip ==
    Done => SolidLines(StrSplit(StrJoin(Contents(merged_out), NLNL), NL1))
            = SolidLines(StrSplit(text, NL1))

(***************************************************************************)
(* C2: both delimiters of every fenced code block of the text, with what    *)
(* lies between them, are inside the content of one returned chunk (blank   *)
(* lines aside).  Text in front of the first heading is dropped as a whole  *)
(* by the heading split (C1's subject), so the blocks counted here are      *)
(* those of a text that has no heading or starts with one: there a block    *)
(* that is in no single chunk has been cut.                                 *)
(***************************************************************************)
\* s without its blank lines.
NoBlankLines(s) == StrJoin(SolidLines(StrSplit(s, NL1)), NL1)

C2_BlocksWhole ==
    Done /\ (headings = <<>> \/ headings[1].idx = 0)
    => \A b \in 1..Len(CodeBlocks(text)) :
          \E i \in 1..Len(final_chunks) :
              Contains(NoBlankLines(final_chunks[i].content),
                       NoBlankLines(CodeBlocks(text)[b]))

(***************************************************************************)
(* C3: the chunk the walk emits has inherited_heading true exactly when its *)
(* candidate had no heading of its own and a previous heading path was      *)
(* there to inherit.                                                        *)
(***************************************************************************)
C3_InheritedFlag ==
    [][Len(final_chunks') = Len(final_chunks) + 1 =>
         final_chunks'[Len(final_chunks')].metadata.inherited_heading
         = (/\ ~chunks_data[Len(final_chunks) + 1].heading_info.has_heading
            /\ previous_heading_path # <<>>)]_vars

(***************************************************************************)
(* C4: the path built for any heading of the heading list has levels that   *)
(* never decrease and that strictly increase between distinct neighbours.   *)
(***************************************************************************)
LevelsAscend(path) ==
    \A k \in 1..(Len(path) - 1) :
        /\ path[k].level <= path[k + 1].level
        /\ path[k] # path[k + 1] => path[k].level < path[k + 1].level

PathOfHeading(hs, t) ==
    build_heading_path(
        [has_heading |-> TRUE, heading |-> hs[t].title, level |-> hs[t].level], hs)

C4_PathLevels ==
    pc # "split" => \A t \in 1..Len(headings) : LevelsAscend(PathOfHeading(headings, t))

(***************************************************************************)
(* C5: a nested chain '# A', '## B', '### C' with short bodies and a budget *)
(* above the size of the text yields exactly one chunk, whose breadcrumb is *)
(* 'A > B > C'.                                                             *)
(***************************************************************************)
C5_NestedOneChunk ==
    Done => /\ Len(final_chunks) = 1
            /\ final_chunks[1].metadata.has_breadcrumb
            /\ final_chunks[1].metadata.breadcrumb
               = <<"A", SP, ">", SP, "B", SP, ">", SP, "C">>

(***************************************************************************)
(* C6: the empty text yields the empty list of chunks.                      *)
(***************************************************************************)
C6_EmptyText == Done /\ text = <<>> => final_chunks = <<>>

(***************************************************************************)
(* C7: with chunk_size <= 0 nothing is combined: there are as many chunks   *)
(* as paragraphs (of the text without headings, of the sections otherwise). *)
(***************************************************************************)
ParagraphCount(t) == Len(StrSplit(protect_code_blocks(t).protected_text, NLNL))

RECURSIVE SectionParagraphs(_, _, _)
SectionParagraphs(lines, hs, i) ==
    IF i > Len(hs) THEN 0
    ELSE ParagraphCount(SectionText(lines, hs, i)) + SectionParagraphs(lines, hs, i + 1)

UnitCount ==
    IF headings = <<>> THEN ParagraphCount(text)
    ELSE SectionParagraphs(StrSplit(text, NL1), headings, 1)

C7_NothingFits == Done /\ chunk_size <= 0 => Len(final_chunks) = UnitCount

(***************************************************************************)
(* C8 as claimed: with chunk_overlap = k > 0 and at least two chunks, every *)
(* returned chunk but the first starts with the last k lines of the         *)
(* pre-overlap chunk before it, every one but the last ends with the first  *)
(* k lines of the pre-overlap chunk after it, the first gains only the      *)
(* trailing and the last only the leading addition.                         *)
(***************************************************************************)
OverlapApplies == Done /\ chunk_overlap > 0 /\ Len(merged_out) >= 2

GetsContext(pre, i, body) ==
    /\ ~pre[i].heading_info.has_heading
    /\ \E j \in 1..(i - 1) : pre[j].heading_info.has_heading
    /\ ~StartsWith(Strip(body), ContextMarker)

C9_ChunkIds ==
    /\ \A i \in 1..Len(final_chunks) : final_chunks[i].metadata.chunk_id = i - 1
    /\ Done => {final_chunks[i].metadata.chunk_id : i \in 1..Len(final_chunks)}
               = 0..(Len(chunks_data) - 1)

C9_Witness == Done /\ Len(final_chunks) >= 3

(***************************************************************************)
(* C10: the merge pass cuts its input into contiguous runs in order: no     *)
(* more candidates out than in, each output the contents of its run joined  *)
(* by blank lines with the heading_info of the run's first candidate, and   *)
(* a candidate joins the run before it exactly when the length of the       *)
(* content accumulated so far plus its own length is within chunk_size.     *)
(***************************************************************************)
\* The members of a set of numbers in ascending order.
RECURSIVE Ascending(_)
Ascending(S) ==
    IF S = {} THEN <<>>
    ELSE LET lo == CHOOSE x \in S : \A y \in S : x <= y
         IN  <<lo>> \o Ascending(S \ {lo})

\* The contents of input candidates a..b joined by blank lines.
RunContent(in, a, b) == StrJoin([k \in 1..(b - a + 1) |-> in[a + k - 1].content], NLNL)

IsGreedyMerge(in, out, size) ==
    IF in = <<>> THEN out = <<>>
    ELSE /\ Len(out) >= 1
         /\ Len(out) <= Len(in)
         /\ \E later \in SUBSET (2..Len(in)) :
               /\ Cardinality(later) = Len(out) - 1
               /\ LET first   == Ascending({1} \cup later)
                      last(j) == IF j < Len(out) THEN first[j + 1] - 1 ELSE Len(in)
                  IN  \A j \in 1..Len(out) :
                         /\ out[j].content = RunContent(in, first[j], last(j))
                         /\ out[j].heading_info = in[first[j]].heading_info
                         /\ \A p \in first[j]..last(j) :
                               p < Len(in) =>
                                  ((p + 1 <= last(j))
                                   <=> Len(RunContent(in, first[j], p))
                                       + Len(in[p + 1].content) <= size)

C10_Merge == pc \in {"overlap", "walk", "done"} => IsGreedyMerge(split_out, merged_out, chunk_size)

\* A merge pass that joined some neighbours and kept others apart.
C10_Witness ==
    /\ pc = "overlap"
    /\ Len(merged_out) >= 2
    /\ Len(merged_out) < Len(split_out)

(***************************************************************************)
(* C12: for every heading of the heading list, the path the direct-ancestor *)
(* scan of _build_heading_path computes for it has the same entries in the  *)
(* same order as the stack of the single pass has at that heading (on a     *)
(* heading of level L, pop every entry of level >= L, then push it).        *)
(***************************************************************************)
\* Pop the entries of level >= level off the top of the stack.
RECURSIVE PopTo(_, _)
PopTo(stack, level) ==
    IF stack # <<>> /\ stack[Len(stack)].level >= level
    THEN PopTo(SubSeq(stack, 1, Len(stack) - 1), level)
    ELSE stack

\* The stack of the single pass after the first t headings of hs.
RECURSIVE StackAt(_, _)
StackAt(hs, t) ==
    IF t = 0 THEN <<>>
    ELSE Append(PopTo(StackAt(hs, t - 1), hs[t].level),
                [level |-> hs[t].level, title |-> hs[t].title])

\* The path of the scan for the heading at position t of hs.
ScanAt(hs, t) ==
    ParentsFrom(hs, 1, t) \o <<[level |-> hs[t].level, title |-> hs[t].title]>>

C12_ScanIsStack ==
    pc # "split" =>
        \A t \in 1..Len(headings) : ScanAt(headings, t) = StackAt(headings, t)

(***************************************************************************)
(* C13: for chunk_size > 0, every candidate that exists after the split and *)
(* after the merge has at most chunk_size characters, unless it is a single *)
(* paragraph or a single code block that alone exceeds chunk_size: the      *)
(* blank lines that join sections, paragraphs and chunks never carry a      *)
(* combined candidate over the budget.                                      *)
(***************************************************************************)
\* The content is one unit of the paragraph split: with its code blocks
\* protected it holds no blank-line boundary.
IsSingleUnit(content) ==
    Len(StrSplit(protect_code_blocks(content).protected_text, NLNL)) = 1

WithinBudget(cs, size) ==
    \A i \in 1..Len(cs) : Len(cs[i].content) <= size \/ IsSingleUnit(cs[i].content)

C13_SizeBounded ==
    chunk_size > 0 =>
        /\ pc # "split" => WithinBudget(split_out, chunk_size)
        /\ pc \in {"overlap", "walk", "done"} => WithinBudget(merged_out, chunk_size)

(***************************************************************************)
(* Documents whose lines may already be context markers: the calls of       *)
(* chunk_by_headings on them are the specification SpecContext.             *)
(***************************************************************************)
ContextLines ==
    {<<"#", SP, "A">>, <<"#", "#", SP, "B">>, <<"x">>, <<>>, ContextMarker}

ContextDocuments ==
    {StrJoin(ls, NL1) : ls \in UNION {[1..n -> ContextLines] : n \in 1..MaxLines}}

InitContext ==
    \E t \in ContextDocuments, size \in ChunkSizes, overlap \in Overlaps :
        Start(t, size, overlap)

SpecContext == InitContext /\ [][Next]_vars

(***************************************************************************)
(* C14: during the walk, after any prefix of the candidates,                *)
(* previous_heading_path is the path of the most recent candidate with a    *)
(* heading of its own (empty if there is none); a '[Context: ...]' line is  *)
(* prepended to a candidate exactly when it has no heading of its own, the  *)
(* previous path is not empty and its content does not already start with   *)
(* '[Context:'; content in front of any heading gets no prefix and          *)
(* inherited_heading false.                                                 *)
(***************************************************************************)
\* The candidate at position j carries a heading of its own.
Genuine(j) == chunks_data[j].heading_info.has_heading

\* The path of the most recent candidate among the first n that carries a
\* heading of its own; <<>> if there is none.
RECURSIVE LastGenuinePath(_)
LastGenuinePath(n) ==
    IF n = 0 THEN <<>>
    ELSE IF Genuine(n) THEN build_heading_path(chunks_data[n].heading_info, headings)
    ELSE LastGenuinePath(n - 1)

\* Final chunk i is candidate i behind the context line of path.
Prefixed(i, path) ==
    final_chunks[i].content
    = ContextPrefix(FileName, path) \o NLNL \o chunks_data[i].content

\* The walk as claimed, with "already starts with" decided by starts(content).
WalkAsClaimed(starts(_)) ==
    pc \in {"walk", "done"} =>
        /\ previous_heading_path = LastGenuinePath(Len(final_chunks))
        /\ \A i \in 1..Len(final_chunks) :
              LET before == LastGenuinePath(i - 1)
              IN  /\ IF ~Genuine(i) /\ before # <<>> /\ ~starts(chunks_data[i].content)
                     THEN Prefixed(i, before)
                     ELSE final_chunks[i].content = chunks_data[i].content
                  /\ LastGenuinePath(i) = <<>> =>
                        ~final_chunks[i].metadata.inherited_heading

\* The content starts with the marker as it stands.
StartsWithMarker(content) == StartsWith(content, ContextMarker)

\* The content starts with the marker once its leading whitespace is dropped.
StartsWithMarkerStripped(content) == StartsWith(Strip(content), ContextMarker)

C14_WalkAsClaimed == WalkAsClaimed(StartsWithMarker)

C14_Walk == WalkAsClaimed(StartsWithMarkerStripped)

\* A finished walk in which a heading-less candidate behind a heading starts
\* with the marker only once its leading whitespace is dropped, and was left
\* as it was.
C14_Witness ==
    /\ Done
    /\ \E k \in 1..Len(final_chunks) :
          /\ ~Genuine(k) /\ LastGenuinePath(k) # <<>>
          /\ StartsWithMarkerStripped(chunks_data[k].content)
          /\ ~StartsWithMarker(chunks_data[k].content)
          /\ final_chunks[k].content = chunks_data[k].content

(***************************************************************************)
(* Documents of code fences, body lines, blank lines and lines that spell   *)
(* the first placeholder: the calls of chunk_by_headings on them are the    *)
(* specification SpecBlocks.                                                *)
(***************************************************************************)
BlockLines == {Fence, <<"x">>, <<>>, Placeholder(0)}

BlockDocuments ==
    {StrJoin(ls, NL1) : ls \in UNION {[1..n -> BlockLines] : n \in 1..MaxLines}}

InitBlocks ==
    \E t \in BlockDocuments, size \in ChunkSizes, overlap \in Overlaps :
        Start(t, size, overlap)

SpecBlocks == InitBlocks /\ [][Next]_vars

(***************************************************************************)
(* C15: code-block protection is a lossless round trip with a one-to-one    *)
(* placeholder table: protecting the blocks of a text, splitting on blank   *)
(* lines, restoring every paragraph and joining the paragraphs by blank     *)
(* lines gives back the text, and every placeholder of the table stands in  *)
(* the protected text exactly once, also when the text spells a placeholder *)
(* itself or repeats a block.                                               *)
(***************************************************************************)
\* The paragraphs of lines 199-208 restored and joined again.
RestoredParagraphs(t) ==
    LET p     == protect_code_blocks(t)
        paras == StrSplit(p.protected_text, NLNL)
    IN  StrJoin([i \in 1..Len(paras) |-> restore_code_blocks(paras[i], p.block_map)],
                NLNL)

\* The number of places of s at which p stands.
Occurrences(s, p) == Cardinality({at \in 0..(Len(s) - Len(p)) : MatchAt(s, p, at)})

OneToOne(t) ==
    LET p == protect_code_blocks(t)
    IN  \A k \in 1..Len(p.block_map) :
            Occurrences(p.protected_text, p.block_map[k].placeholder) = 1

C15_BlockRoundTrip ==
    pc # "split" => RestoredParagraphs(text) = text /\ OneToOne(text)

(***************************************************************************)
(* C16: every final chunk whose metadata carries a heading, its own or an   *)
(* inherited one, also carries breadcrumb and parent_header; the two list   *)
(* the same titles in the same order, joined by ' > ' and by ' | ', and the *)
(* last title is metadata.heading; for a chunk behind a '[Context: ...]'    *)
(* line the breadcrumb is the one that line shows.                          *)
(***************************************************************************)
BreadcrumbConsistent(chunk) ==
    LET m      == chunk.metadata
        titles == StrSplit(m.breadcrumb, <<SP, ">", SP>>)
    IN  /\ m.has_breadcrumb
        /\ titles = StrSplit(m.parent_header, <<SP, "|", SP>>)
        /\ titles[Len(titles)] = m.heading
        /\ StartsWith(chunk.content, ContextMarker) =>
              StartsWith(chunk.content,
                         ContextMarker \o <<SP>> \o FileName \o <<SP, ">", SP>>
                         \o m.breadcrumb \o <<"]">>)

C16_HeadingHasBreadcrumb ==
    \A i \in 1..Len(final_chunks) :
        final_chunks[i].metadata.has_heading_keys => BreadcrumbConsistent(final_chunks[i])

(***************************************************************************)
(* Two calls of chunk_by_headings on one StructuredChunker                  *)
(*                                                                          *)
(* The instance holds chunk_size and chunk_overlap (lines 59-60); every     *)
(* call has a frame of its own with its arguments and locals.  The merge    *)
(* pass runs one loop iteration per step: its candidates are dict objects   *)
(* that it changes in place (line 300), so the frame keeps the objects of   *)
(* the list it was given and current_chunk refers to one by position; a     *)
(* dict is appended to merged only after its last change.                   *)
(***************************************************************************)
callVars == <<text, headings, pc, split_out, merged_out, chunks_data, final_chunks,
              previous_heading_path>>

\* No single call is running.
CallIdle ==
    /\ text = <<>>
    /\ headings = <<>>
    /\ pc = "idle"
    /\ split_out = <<>>
    /\ merged_out = <<>>
    /\ chunks_data = <<>>
    /\ final_chunks = <<>>
    /\ previous_heading_path = <<>>

Callers == {1, 2}

\* The frame of a call that has just been entered with text t.
Frame(t) ==
    [text |-> t, headings |-> parse_headings(t), pc |-> "split",
     objects |-> <<>>,               \* the dicts of the list given to the merge
     merged |-> <<>>,                \* merged: the dicts appended so far
     current_chunk |-> 0,            \* current_chunk: a position in objects
     next_chunk |-> 0,               \* the loop position in chunks_data[1:]
     chunks_data |-> <<>>, final_chunks |-> <<>>, previous_heading_path |-> <<>>]

\* Lines 75-78 in frame f.
FrameSplit(f, size) ==
    [f EXCEPT !.objects = IF f.headings = <<>>
                          THEN split_by_paragraph(f.text, size)
                          ELSE split_by_headings(f.text, f.headings, size),
              !.pc = "merge"]

\* Lines 286-290: the entry of _merge_short_chunks.
FrameMergeEnter(f) ==
    IF f.objects = <<>>
    THEN [f EXCEPT !.chunks_data = <<>>, !.pc = "overlap"]
    ELSE [f EXCEPT !.merged = <<>>, !.current_chunk = 1, !.next_chunk = 2,
                   !.pc = "merging"]

\* Lines 292-303: one iteration of the loop of _merge_short_chunks, or lines
\* 305-306 once the loop is over.
FrameMergeStep(f, size) ==
    IF f.next_chunk > Len(f.objects)
    THEN LET merged == Append(f.merged, f.objects[f.current_chunk])
         IN  [f EXCEPT !.merged = merged, !.chunks_data = merged, !.pc = "overlap"]
    ELSE LET current_content == f.objects[f.current_chunk].content
             next_content    == f.objects[f.next_chunk].content
         IN  IF Len(current_content) + Len(next_content) <= size
             THEN [f EXCEPT !.objects[f.current_chunk].content =
                                current_content \o NLNL \o next_content,
                            !.next_chunk = f.next_chunk + 1]
             ELSE [f EXCEPT !.merged = Append(f.merged, f.objects[f.current_chunk]),
                            !.current_chunk = f.next_chunk,
                            !.next_chunk = f.next_chunk + 1]

\* Lines 84-89 in frame f.
FrameOverlap(f, overlap) ==
    [f EXCEPT !.chunks_data = IF overlap > 0 /\ Len(f.chunks_data) > 1
                              THEN apply_overlap(f.chunks_data, overlap)
                              ELSE f.chunks_data,
              !.final_chunks = <<>>,
              !.previous_heading_path = <<>>,
              !.pc = "walk"]

\* One iteration of the loop of lines 91-143, or line 145, in frame f.
FrameWalk(f) ==
    IF Len(f.final_chunks) = Len(f.chunks_data)
    THEN [f EXCEPT !.pc = "done"]
    ELSE LET i    == Len(f.final_chunks)
             step == WalkStep(i, f.chunks_data[i + 1], f.previous_heading_path,
                              f.headings)
         IN  [f EXCEPT !.final_chunks = Append(f.final_chunks, step.chunk),
                       !.previous_heading_path = step.previous]

\* The frames after call k has run one step of the merge loop with a merged
\* list that belongs to the instance: every call sees what k appended.
MergeStepShared(frames, k, size) ==
    LET after == FrameMergeStep(frames[k], size)
    IN  [j \in DOMAIN frames |->
            IF j = k THEN after ELSE [frames[j] EXCEPT !.merged = after.merged]]

\* The frames after call k has run one step of the merge loop: merged,
\* current_chunk and the loop position are locals of the call (lines 289-292).
MergeStep(frames, k, size) ==
    [frames EXCEPT ![k] = FrameMergeStep(frames[k], size)]

\* The documents, budgets and overlaps of the two calls.
\* A first line, a blank line, a body line and a last line: with a heading in
\* front and a budget of 4 the split yields several candidates, and with a
\* short last line the merge joins two of them.
SharedHeads == {<<"#", SP, "A">>, <<"#", "#", SP, "B">>, <<"x">>}
SharedTails == {<<"#", SP, "A">>, <<"x">>, <<>>}
SharedDocuments ==
    {StrJoin(<<h, <<>>, <<"x">>, l>>, NL1) : h \in SharedHeads, l \in SharedTails}
SharedSizes == {4, 1000}
SharedOverlaps == {0, 1}

InitShared ==
    /\ CallIdle
    /\ AgentsIdle
    /\ chunk_size \in SharedSizes
    /\ chunk_overlap \in SharedOverlaps
    /\ \E t1 \in SharedDocuments, t2 \in SharedDocuments :
          /\ t1 # t2
          /\ calls = <<Frame(t1), Frame(t2)>>

\* The part of the state a step of a call leaves alone.  The source assigns
\* self.chunk_size and self.chunk_overlap only in __init__.
CallStep(k, f) ==
    /\ calls' = [calls EXCEPT ![k] = f]
    /\ UNCHANGED <<chunk_size, chunk_overlap, callVars, agents>>

SharedSplit(k) ==
    /\ calls[k].pc = "split"
    /\ CallStep(k, FrameSplit(calls[k], chunk_size))

SharedMergeEnter(k) ==
    /\ calls[k].pc = "merge"
    /\ CallStep(k, FrameMergeEnter(calls[k]))

SharedMergeStep(k) ==
    /\ calls[k].pc = "merging"
    /\ calls' = MergeStep(calls, k, chunk_size)
    /\ UNCHANGED <<chunk_size, chunk_overlap, callVars, agents>>

SharedOverlap(k) ==
    /\ calls[k].pc = "overlap"
    /\ CallStep(k, FrameOverlap(calls[k], chunk_overlap))

SharedWalk(k) ==
    /\ calls[k].pc = "walk"
    /\ CallStep(k, FrameWalk(calls[k]))

NextShared ==
    \E k \in Callers :
        \/ SharedSplit(k)
        \/ SharedMergeEnter(k)
        \/ SharedMergeStep(k)
        \/ SharedOverlap(k)
        \/ SharedWalk(k)

SpecShared == InitShared /\ [][NextShared]_vars

(***************************************************************************)
(* C11: two calls of chunk_by_headings on one chunker for different         *)
(* documents, their steps interleaved in any order, each return what the    *)
(* call returns when it runs alone; no step writes chunk_size,              *)
(* chunk_overlap, or the text or the heading list of a call.                *)
(***************************************************************************)
\* The walk of lines 91-143 over the candidates from position i + 1 on.
RECURSIVE WalkFrom(_, _, _, _)
WalkFrom(cs, i, previous, hs) ==
    IF i = Len(cs) THEN <<>>
    ELSE LET step == WalkStep(i, cs[i + 1], previous, hs)
         IN  <<step.chunk>> \o WalkFrom(cs, i + 1, step.previous, hs)

\* What a call returns when nothing else runs.
ReturnedAlone(t, hs, size, overlap) ==
    LET split  == IF hs = <<>> THEN split_by_paragraph(t, size)
                  ELSE split_by_headings(t, hs, size)
        merged == merge_short_chunks(split, size)
        cs     == IF overlap > 0 /\ Len(merged) > 1
                  THEN apply_overlap(merged, overlap) ELSE merged
    IN  WalkFrom(cs, 0, <<>>, hs)

C11_Isolated ==
    /\ [](\A k \in DOMAIN calls :
            calls[k].pc = "done" =>
                calls[k].final_chunks
                = ReturnedAlone(calls[k].text, calls[k].headings, chunk_size,
                                chunk_overlap))
    /\ [][/\ chunk_size' = chunk_size
          /\ chunk_overlap' = chunk_overlap
          /\ \A k \in DOMAIN calls :
                /\ calls'[k].text = calls[k].text
                /\ calls'[k].headings = calls[k].headings]_vars

\* Both calls have returned, each had several candidates to merge, and the
\* merge of one of them joined two candidates in place.
C11_Witness ==
    /\ \A k \in DOMAIN calls : calls[k].pc = "done" /\ Len(calls[k].objects) >= 2
    /\ \E k \in DOMAIN calls : Len(calls[k].final_chunks) < Len(calls[k].objects)

(***************************************************************************)
(* source_code/react_core.py: the regular expressions of ReActCore          *)
(*                                                                          *)
(* All three are searched with re.IGNORECASE, so letters are compared in    *)
(* lower case; \s is the blank or the line break, \w a letter, a digit or   *)
(* the underscore.                                                          *)
(***************************************************************************)
UpperCase ==
    <<"A", "B", "C", "D", "E", "F", "G", "H", "I", "J", "K", "L", "M",
      "N", "O", "P", "Q", "R", "S", "T", "U", "V", "W", "X", "Y", "Z">>
LowerCase ==
    <<"a", "b", "c", "d", "e", "f", "g", "h", "i", "j", "k", "l", "m",
      "n", "o", "p", "q", "r", "s", "t", "u", "v", "w", "x", "y", "z">>

LowerOf ==
    [c \in {UpperCase[k] : k \in 1..Len(UpperCase)} |->
        LowerCase[CHOOSE k \in 1..Len(UpperCase) : UpperCase[k] = c]]

Lower(c) == IF c \in DOMAIN LowerOf THEN LowerOf[c] ELSE c

Lowered(s) == [k \in 1..Len(s) |-> Lower(s[k])]

WordChars ==
    {UpperCase[k] : k \in 1..Len(UpperCase)} \cup {LowerCase[k] : k \in 1..Len(LowerCase)}
    \cup {"0", "1", "2", "3", "4", "5", "6", "7", "8", "9", "_"}

\* The patterns, in lower case.
FinalAnswerTag == <<"f", "i", "n", "a", "l", " ", "a", "n", "s", "w", "e", "r", ":">>
ActionTag == <<"a", "c", "t", "i", "o", "n", ":">>
FinishWord == <<"f", "i", "n", "i", "s", "h">>

\* The length of the run of characters of set that starts at 0-based offset
\* at of s.
RunFrom(s, set, at) == RunLength(SubSeq(s, at + 1, Len(s)), set)

\* The offsets of thought_text at which 'Action:' stands, in any case.
TagOffsets(thought_text) ==
    LET low == Lowered(thought_text)
    IN  {at \in 0..(Len(low) - Len(ActionTag)) : MatchAt(low, ActionTag, at)}

\* r'Action:\s*FINISH' matches behind the tag at offset at: \s* takes the
\* whole run of whitespace, as the next character of the pattern is none.
FinishMatchAt(thought_text, at) ==
    LET n0 == at + Len(ActionTag)
        n1 == n0 + RunFrom(thought_text, Whitespace, n0)
    IN  Lowered(Slice(thought_text, n1, n1 + Len(FinishWord))) = FinishWord

SearchFinish(thought_text) ==
    \E at \in TagOffsets(thought_text) : FinishMatchAt(thought_text, at)

\* _should_finish (lines 91-97).
should_finish(thought_text) ==
    Contains(Lowered(thought_text), FinalAnswerTag) \/ SearchFinish(thought_text)

\* _extract_final_answer (lines 99-110): r'Final Answer:\s*(.+?)(?:\n|$)' with
\* re.DOTALL.  After the leftmost tag \s* takes the whitespace run; the group
\* runs from the next character to the first line break behind it or to the
\* end.  With nothing behind the run, the group is at most one whitespace
\* character given back by \s*, which strip() empties, or there is no match:
\* both return thought.strip().
extract_final_answer(thought_text) ==
    LET at == Find(Lowered(thought_text), FinalAnswerTag, 0)
        p  == at + Len(FinalAnswerTag)
                 + RunFrom(thought_text, Whitespace, at + Len(FinalAnswerTag))
    IN  IF at = -1 \/ p >= Len(thought_text) THEN Strip(thought_text)
        ELSE LET nl     == Find(thought_text, NL1, p + 1)
                 q      == IF nl = -1 THEN Len(thought_text) ELSE nl
                 answer == Strip(Slice(thought_text, p, q))
             IN  IF answer # <<>> THEN answer ELSE Strip(thought_text)

\* r'Action:\s*(\w+)\s*\((.+?)\)' with re.DOTALL behind the tag at offset at:
\* the whitespace run, the whole run of word characters, the whitespace run,
\* an opening bracket, and at least one character up to the first closing
\* bracket behind it.
ActionMatchAt(thought_text, at) ==
    LET n0    == at + Len(ActionTag)
        n1    == n0 + RunFrom(thought_text, Whitespace, n0)
        n2    == n1 + RunFrom(thought_text, WordChars, n1)
        n3    == n2 + RunFrom(thought_text, Whitespace, n2)
        close == Find(thought_text, <<")">>, n3 + 2)
    IN  IF /\ n2 > n1
           /\ MatchAt(thought_text, <<"(">>, n3)
           /\ close # -1
        THEN [matched |-> TRUE, tool_name |-> Slice(thought_text, n1, n2),
              args_str |-> Strip(Slice(thought_text, n3 + 1, close))]
        ELSE [matched |-> FALSE, tool_name |-> <<>>, args_str |-> <<>>]

\* re.search: the match at the least offset (lines 115-119, 126-127).
SearchAction(thought_text) ==
    LET found == {at \in TagOffsets(thought_text) :
                    ActionMatchAt(thought_text, at).matched}
    IN  IF found = {} THEN [matched |-> FALSE, tool_name |-> <<>>, args_str |-> <<>>]
        ELSE ActionMatchAt(thought_text, CHOOSE at \in found : \A o \in found : at <= o)

(***************************************************************************)
(* source_code/react_core.py: _act and _observe                             *)
(***************************************************************************)
\* The texts of the results and observations.
NoValidAction ==
    <<"N", "o", SP, "v", "a", "l", "i", "d", SP, "A", "c", "t", "i", "o",
      "n", SP, "f", "o", "u", "n", "d">>

ToolPrefix ==
    <<"T", "o", "o", "l", SP>>

NotAllowed ==
    <<SP, "i", "s", SP, "n", "o", "t", SP, "a", "l", "l", "o", "w", "e",
      "d">>

UnknownTool ==
    <<"U", "n", "k", "n", "o", "w", "n", SP, "t", "o", "o", "l", ":", SP>>

UnparsedArgs ==
    <<"U", "n", "a", "b", "l", "e", SP, "t", "o", SP, "p", "a", "r", "s",
      "e", SP, "A", "c", "t", "i", "o", "n", SP, "a", "r", "g", "u", "m",
      "e", "n", "t", "s", ":", SP>>

ErrorLabel ==
    <<"E", "r", "r", "o", "r", ":", SP>>

ToolNote ==
    <<SP, "(", "t", "o", "o", "l", ":", SP>>

ToolLabel ==
    <<"[", "T", "o", "o", "l", SP>>

TaskCompleted ==
    <<"T", "a", "s", "k", SP, "c", "o", "m", "p", "l", "e", "t", "e", "d">>

UnknownResult ==
    <<"U", "n", "k", "n", "o", "w", "n", SP, "A", "c", "t", "i", "o", "n",
      SP, "r", "e", "s", "u", "l", "t", ":", SP, "{", "'", "t", "y", "p",
      "e", "'", ":", SP, "'", "n", "o", "_", "a", "c", "t", "i", "o", "n",
      "'", ",", SP, "'", "e", "r", "r", "o", "r", "'", ":", SP, "'", "N",
      "o", SP, "v", "a", "l", "i", "d", SP, "A", "c", "t", "i", "o", "n",
      SP, "f", "o", "u", "n", "d", "'", "}">>

\* self.tools: the registered tools, by name.  A third name is used by
\* Thoughts but is not registered.
GoTool == <<"g", "o">>
RmTool == <<"r", "m">>
NoTool == <<"z", "z">>
Tools == {GoTool, RmTool}

\* What a call of a tool function may do: return a str, return a dict
\* json.dumps can serialise (given by its JSON text), return a dict it
\* cannot serialise, or raise an Exception (given by str(e)).
ToolOutcomes ==
    {[kind |-> "str", text |-> <<"o", "k">>],
     [kind |-> "dict", text |-> <<"{", "}">>],
     [kind |-> "opaque_dict", text |-> <<>>],
     [kind |-> "raise", text |-> <<"b", "o", "o", "m">>]}

\* The argument texts json.loads accepts among those the Thoughts use.
JsonTexts == {<<"{", "}">>}

\* r'(\w+)\s*[:=]\s*"([^"]+)"' matches at offset at of args_str (line 144).
KeyValueAt(args_str, at) ==
    LET n1 == at + RunFrom(args_str, WordChars, at)
        n2 == n1 + RunFrom(args_str, Whitespace, n1)
        n3 == n2 + 1 + RunFrom(args_str, Whitespace, n2 + 1)
        n4 == Find(args_str, <<"\"">>, n3 + 1)      \* the closing quote
    IN  /\ n1 > at
        /\ MatchAt(args_str, <<":">>, n2) \/ MatchAt(args_str, <<"=">>, n2)
        /\ MatchAt(args_str, <<"\"">>, n3)
        /\ n4 > n3 + 1

\* Lines 139-149: json.loads succeeds, or the key-value pattern finds a pair.
ArgsParsed(args_str) ==
    \/ args_str \in JsonTexts
    \/ \E at \in 0..Len(args_str) : KeyValueAt(args_str, at)

ActionResult(type, error, tool_name, result, called) ==
    [type |-> type, error |-> error, tool_name |-> tool_name, result |-> result,
     called |-> called]          \* called: tool_func was called (line 153)

NoResult == [kind |-> "none", text |-> <<>>]

\* _act (lines 112-157) when a call of the tool, if it comes to one, ends
\* with outcome.  allowed is the allowed_tools argument.
act(thought_text, allowed, outcome) ==
    LET action_match == SearchAction(thought_text)
        tool_name    == action_match.tool_name
    IN  IF ~action_match.matched
        THEN IF SearchFinish(thought_text)
             THEN ActionResult("finish", <<>>, <<>>, NoResult, FALSE)
             ELSE ActionResult("no_action", NoValidAction, <<>>, NoResult, FALSE)
        ELSE IF allowed.given /\ tool_name \notin allowed.names
        THEN ActionResult("error", ToolPrefix \o tool_name \o NotAllowed, <<>>,
                          NoResult, FALSE)
        ELSE IF tool_name \notin Tools
        THEN ActionResult("error", UnknownTool \o tool_name, <<>>, NoResult, FALSE)
        ELSE IF ~ArgsParsed(action_match.args_str)
        THEN ActionResult("error", UnparsedArgs \o action_match.args_str, <<>>,
                          NoResult, FALSE)
        ELSE IF outcome.kind = "raise"
        THEN ActionResult("error", outcome.text, tool_name, NoResult, TRUE)
        ELSE ActionResult("tool", <<>>, tool_name, outcome, TRUE)

\* _observe (lines 159-175): the observation text, or raised when json.dumps
\* meets a dict it cannot serialise (line 172, TypeError).
observe(acted) ==
    IF acted.type = "finish"
    THEN [raised |-> FALSE, text |-> TaskCompleted]
    ELSE IF acted.type = "error"
    THEN [raised |-> FALSE,
          text |-> ErrorLabel \o acted.error
                   \o (IF acted.tool_name # <<>>
                       THEN ToolNote \o acted.tool_name \o <<")">>
                       ELSE <<>>)]
    ELSE IF acted.type = "tool"
    THEN IF acted.result.kind = "opaque_dict"
         THEN [raised |-> TRUE, text |-> <<>>]
         ELSE [raised |-> FALSE,
               text |-> ToolLabel \o acted.tool_name \o <<"]", SP>>
                        \o acted.result.text]
    ELSE [raised |-> FALSE, text |-> UnknownResult]

(***************************************************************************)
(* ReActCore.run as a state machine (react_core.py, lines 25-47)            *)
(***************************************************************************)
MaxIterations == 2

chunkerVars == <<callVars, chunk_size, chunk_overlap, calls>>

\* No chunker is at work.
ChunkerIdle ==
    /\ CallIdle
    /\ chunk_size = 1000
    /\ chunk_overlap = 0
    /\ calls = <<>>

ThinkFailed ==
    <<"T", "h", "o", "u", "g", "h", "t", ":", SP, "E", "n", "c", "o", "u",
      "n", "t", "e", "r", "e", "d", SP, "e", "r", "r", "o", "r", ",", SP,
      "u", "n", "a", "b", "l", "e", SP, "t", "o", SP, "c", "o", "n", "t",
      "i", "n", "u", "e", SP, "t", "h", "i", "n", "k", "i", "n", "g", ".",
      SP, "E", "r", "r", "o", "r", ":", SP>>

ObservationLabel ==
    <<"O", "b", "s", "e", "r", "v", "a", "t", "i", "o", "n", SP>>

UnableToComplete ==
    <<"U", "n", "a", "b", "l", "e", SP, "t", "o", SP, "c", "o", "m", "p",
      "l", "e", "t", "e", SP, "t", "a", "s", "k">>

Sorry ==
    <<"S", "o", "r", "r", "y", ",", SP, "u", "n", "a", "b", "l", "e", SP,
      "t", "o", SP, "g", "e", "n", "e", "r", "a", "t", "e", SP, "f", "i",
      "n", "a", "l", SP, "a", "n", "s", "w", "e", "r", ".">>

\* Pieces of Thoughts.
ActionWord == <<"A", "c", "t", "i", "o", "n", ":">>
FinalAnswerWord == <<"F", "i", "n", "a", "l", SP, "A", "n", "s", "w", "e", "r", ":">>
Call(tool_name, args_str) ==
    ActionWord \o <<SP>> \o tool_name \o <<"(">> \o args_str \o <<")">>

\* What llm.generate may return for a Thought prompt.
Thoughts ==
    {<<"h", "m">>,
     FinalAnswerWord \o <<SP, "4">>,
     Lowered(FinalAnswerWord),
     ActionWord \o <<SP, "F", "I", "N", "I", "S", "H">>,
     Lowered(ActionWord) \o <<"f", "i", "n", "i", "s", "h">>,
     Call(GoTool, <<"{", "}">>),
     Call(GoTool, <<"a", "=", "\"", "1", "\"">>),
     Call(GoTool, <<"b">>),
     Call(RmTool, <<"{", "}">>),
     Call(NoTool, <<"{", "}">>),
     Call(<<"R", "m">>, <<"{", "}">>),
     Call(RmTool, <<"{", "}">>) \o NL1 \o FinalAnswerWord \o <<SP, "4">>}

\* str(e) of what llm.generate may raise, and what it may return for the
\* final prompt.
LLMErrors == {<<"b", "o", "o", "m">>}
FinalTexts == {<<SP, "4">>}

\* The allowed_tools arguments: None, one registered tool, none at all, a
\* registered and an unregistered tool.
Permissions ==
    {NoTools,
     [given |-> TRUE, names |-> {GoTool}],
     [given |-> TRUE, names |-> {}],
     [given |-> TRUE, names |-> {RmTool, NoTool}]}

\* The part of a prompt that varies from call to call: the observations of
\* lines 72-75 and 179-182, joined by blank lines.
HistoryText(observations) ==
    StrJoin([n \in 1..Len(observations) |->
                ObservationLabel \o Decimal(n) \o <<":", SP>> \o observations[n]],
            NLNL)

ReactPrompt(observations) ==
    IF observations = <<>> THEN <<>> ELSE NLNL \o HistoryText(observations)

\* The state run does not touch.
besideReact == <<chunkerVars, executorVars, memoryVars>>

BesideReactIdle == ChunkerIdle /\ ExecutorIdle /\ MemoryIdle

InitReact ==
    /\ BesideReactIdle
    /\ max_iterations \in 0..MaxIterations
    /\ allowed_tools \in Permissions
    /\ history = <<>>
    /\ iteration = 0
    /\ react_pc = "loop"
    /\ thought = <<>>
    /\ action_result = NoAction
    /\ react_result = <<>>
    /\ invoked = <<>>
    /\ prompts = <<>>

\* Lines 29-31 and 49-56: the next iteration begins and _think returns what
\* the LLM returned, or the error Thought if it raised.
ReactThink ==
    /\ react_pc = "loop"
    /\ iteration < max_iterations
    /\ \E t \in Thoughts \cup {ThinkFailed \o e : e \in LLMErrors} : thought' = t
    /\ prompts' = Append(prompts, ReactPrompt(history))
    /\ iteration' = iteration + 1
    /\ react_pc' = "thought"
    /\ UNCHANGED <<max_iterations, allowed_tools, history, action_result, react_result,
                   invoked, besideReact>>

\* Lines 34-37: the Thought matches a finish pattern and run returns.
ReactFinish ==
    /\ react_pc = "thought"
    /\ should_finish(thought)
    /\ extract_final_answer(thought) # <<>>
    /\ react_result' = extract_final_answer(thought)
    /\ react_pc' = "returned"
    /\ UNCHANGED <<max_iterations, allowed_tools, history, iteration, thought,
                   action_result, invoked, prompts, besideReact>>

\* Line 40: _act, with the call of the tool if it comes to one.
ReactAct ==
    /\ react_pc = "thought"
    /\ ~(should_finish(thought) /\ extract_final_answer(thought) # <<>>)
    /\ \E outcome \in ToolOutcomes :
          LET acted == act(thought, allowed_tools, outcome)
          IN  /\ action_result' = acted
              /\ invoked' = IF acted.called THEN Append(invoked, acted.tool_name)
                            ELSE invoked
    /\ react_pc' = "acted"
    /\ UNCHANGED <<max_iterations, allowed_tools, history, iteration, thought,
                   react_result, prompts, besideReact>>

\* Lines 43-44: the observation is appended, unless _observe raises, which
\* nothing in run catches.
ReactObserve ==
    /\ react_pc = "acted"
    /\ LET observation == observe(action_result)
       IN  IF observation.raised
           THEN react_pc' = "raised" /\ history' = history
           ELSE react_pc' = "loop" /\ history' = Append(history, observation.text)
    /\ UNCHANGED <<max_iterations, allowed_tools, iteration, thought, action_result,
                   react_result, invoked, prompts, besideReact>>

\* Line 47 and lines 177-197: the iterations are used up.
ReactGiveUp ==
    /\ react_pc = "loop"
    /\ iteration >= max_iterations
    /\ IF history # <<>>
       THEN /\ prompts' = Append(prompts, HistoryText(history))
            /\ \E answer \in {Strip(t) : t \in FinalTexts} \cup {Sorry} :
                  react_result' = answer
       ELSE /\ prompts' = prompts
            /\ react_result' = UnableToComplete
    /\ react_pc' = "returned"
    /\ UNCHANGED <<max_iterations, allowed_tools, history, iteration, thought,
                   action_result, invoked, besideReact>>

NextReact == ReactThink \/ ReactFinish \/ ReactAct \/ ReactObserve \/ ReactGiveUp

SpecReact == InitReact /\ [][NextReact]_vars

(***************************************************************************)
(* C17: ReActCore.run always ends by returning, after at most               *)
(* max_iterations Thoughts and at most max_iterations actions, whatever the *)
(* LLM and the tools return or raise: it returns at the first Thought that  *)
(* matches a finish pattern, with no action for that Thought, and otherwise *)
(* after max_iterations iterations it returns the answer generated from the *)
(* recorded observations, 'Unable to complete task' only when there is      *)
(* none.                                                                    *)
(***************************************************************************)
\* The calls of _act so far: one per recorded observation, and the one whose
\* observation is still to come.
Actions == Len(history) + (IF react_pc \in {"acted", "raised"} THEN 1 ELSE 0)

C17_RunReturns ==
    react_pc # "idle" =>
        /\ iteration <= max_iterations
        /\ Actions <= max_iterations
        /\ Len(invoked) <= max_iterations
        /\ react_pc # "raised"
        /\ (iteration > 0 /\ react_pc \in {"acted", "raised", "loop"}) =>
              ~should_finish(thought)
        /\ (react_pc = "returned" /\ ~should_finish(thought)) =>
              /\ iteration = max_iterations
              /\ Len(history) = max_iterations
              /\ history = <<>> => react_result = UnableToComplete
              /\ history # <<>> =>
                    /\ react_result # UnableToComplete
                    /\ prompts[Len(prompts)] = HistoryText(history)

(***************************************************************************)
(* ExecutorCore.execute as a state machine (executor_core.py, lines 21-72)  *)
(***************************************************************************)
MaxTasks == 3

\* The tasks of a plan: calls of the two registered tools and of an unknown
\* one, an LLM task and a task of another type.
PromptText == <<"p">>
TaskKinds ==
    {[type |-> "tool", name |-> GoTool],
     [type |-> "tool", name |-> RmTool],
     [type |-> "tool", name |-> NoTool],
     [type |-> "llm", name |-> <<>>],
     [type |-> "other", name |-> <<>>]}

TaskLists == UNION {[1..n -> TaskKinds] : n \in 0..MaxTasks}

besideExecutor == <<chunkerVars, reactVars, memoryVars>>

BesideExecutorIdle == ChunkerIdle /\ ReactIdle /\ MemoryIdle

InitExecutor ==
    /\ BesideExecutorIdle
    /\ tasks \in TaskLists
    /\ allowed_tools \in Permissions
    /\ task_index = 0
    /\ outputs = <<>>
    /\ tool_texts = <<>>
    /\ executor_pc = "loop"
    /\ invoked = <<>>
    /\ prompts = <<>>

\* The dicts appended to outputs.
Output(ok, kind, name) == [ok |-> ok, kind |-> kind, name |-> name]

\* execute without the test of lines 45-47.
ToolTaskUnchecked(t, allowed, outcome) ==
    IF t.name \notin Tools
    THEN [outputs |-> <<Output(FALSE, "error", <<>>)>>, tool_texts |-> <<>>,
          called |-> FALSE]
    ELSE IF outcome.kind = "raise"
    THEN [outputs |-> <<Output(FALSE, "error", <<>>)>>, tool_texts |-> <<>>,
          called |-> TRUE]
    ELSE IF outcome.kind = "opaque_dict"
    THEN [outputs |-> <<Output(TRUE, "tool", t.name), Output(FALSE, "error", <<>>)>>,
          tool_texts |-> <<>>, called |-> TRUE]
    ELSE [outputs |-> <<Output(TRUE, "tool", t.name)>>,
          tool_texts |-> <<ToolLabel \o t.name \o <<"]", SP>> \o outcome.text>>,
          called |-> TRUE]

\* Lines 31-57 for a tool task whose call, if it comes to one, ends with
\* outcome: what is appended to outputs and to tool_texts, and whether func
\* was called.  outputs.append of line 52 comes before json.dumps of line
\* 53, whose TypeError the handler of line 55 answers with a second append.
ToolTask(t, allowed, outcome) ==
    IF t.name \notin Tools
    THEN [outputs |-> <<Output(FALSE, "error", <<>>)>>, tool_texts |-> <<>>,
          called |-> FALSE]
    ELSE IF allowed.given /\ t.name \notin allowed.names
    THEN [outputs |-> <<Output(FALSE, "tool_blocked", t.name)>>, tool_texts |-> <<>>,
          called |-> FALSE]
    ELSE IF outcome.kind = "raise"
    THEN [outputs |-> <<Output(FALSE, "error", <<>>)>>, tool_texts |-> <<>>,
          called |-> TRUE]
    ELSE IF outcome.kind = "opaque_dict"
    THEN [outputs |-> <<Output(TRUE, "tool", t.name), Output(FALSE, "error", <<>>)>>,
          tool_texts |-> <<>>, called |-> TRUE]
    ELSE [outputs |-> <<Output(TRUE, "tool", t.name)>>,
          tool_texts |-> <<ToolLabel \o t.name \o <<"]", SP>> \o outcome.text>>,
          called |-> TRUE]

\* Lines 60-64: full_prompt.
FullPrompt(texts, prompt) ==
    IF texts # <<>> THEN StrJoin(texts, NLNL) \o NLNL \o prompt ELSE prompt

\* One iteration of the loop of line 30 on a tool task.
ExecuteTool ==
    /\ executor_pc = "loop"
    /\ task_index < Len(tasks)
    /\ tasks[task_index + 1].type = "tool"
    /\ \E outcome \in ToolOutcomes :
          LET done == ToolTask(tasks[task_index + 1], allowed_tools, outcome)
          IN  /\ outputs' = outputs \o done.outputs
              /\ tool_texts' = tool_texts \o done.tool_texts
              /\ invoked' = IF done.called
                            THEN Append(invoked, tasks[task_index + 1].name)
                            ELSE invoked
    /\ task_index' = task_index + 1
    /\ UNCHANGED <<tasks, executor_pc, allowed_tools, prompts, besideExecutor>>

\* One iteration on an LLM task: the LLM returns, or it raises, which
\* nothing in execute catches.
ExecuteLLM ==
    /\ executor_pc = "loop"
    /\ task_index < Len(tasks)
    /\ tasks[task_index + 1].type = "llm"
    /\ prompts' = Append(prompts, FullPrompt(tool_texts, PromptText))
    /\ task_index' = task_index + 1
    /\ \/ outputs' = Append(outputs, Output(TRUE, "llm", <<>>)) /\ executor_pc' = "loop"
       \/ outputs' = outputs /\ executor_pc' = "raised"
    /\ UNCHANGED <<tasks, tool_texts, allowed_tools, invoked, besideExecutor>>

\* One iteration on a task of another type (lines 69-70).
ExecuteOther ==
    /\ executor_pc = "loop"
    /\ task_index < Len(tasks)
    /\ tasks[task_index + 1].type \notin {"tool", "llm"}
    /\ outputs' = Append(outputs, Output(FALSE, "error", <<>>))
    /\ task_index' = task_index + 1
    /\ UNCHANGED <<tasks, tool_texts, executor_pc, allowed_tools, invoked, prompts,
                   besideExecutor>>

\* Line 72.
ExecuteReturn ==
    /\ executor_pc = "loop"
    /\ task_index = Len(tasks)
    /\ executor_pc' = "returned"
    /\ UNCHANGED <<tasks, task_index, outputs, tool_texts, allowed_tools, invoked,
                   prompts, besideExecutor>>

(***************************************************************************)
(* The tools behind a permission list: a run of ReActCore or a call of      *)
(* ExecutorCore.execute.                                                    *)
(***************************************************************************)
InitTools == InitReact \/ InitExecutor

NextTools ==
    \/ ReactThink \/ ReactFinish \/ ReactAct \/ ReactObserve \/ ReactGiveUp
    \/ ExecuteTool \/ ExecuteLLM \/ ExecuteOther \/ ExecuteReturn

SpecTools == InitTools /\ [][NextTools]_vars

(***************************************************************************)
(* C18: the permission list                                                 *)
(***************************************************************************)
\* The names a Thought or a task may give to a tool.
ToolNames == Tools \cup {NoTool, <<"R", "m">>}

\* shown carries a tool result of the tool called name.
CarriesResult(shown, name) == Contains(shown, ToolLabel \o name \o <<"]">>)

\* The tool the Thought names, when it names one that allowed does not hold.
NamesBlocked(thought_text, allowed) ==
    /\ allowed.given
    /\ SearchAction(thought_text).matched
    /\ SearchAction(thought_text).tool_name \notin allowed.names

\* The names of the registered tools among the tasks ts that allowed does
\* not hold, and the names of the tool_blocked outputs, in their order.
RECURSIVE BlockedTasks(_, _)
BlockedTasks(ts, allowed) ==
    IF ts = <<>> THEN <<>>
    ELSE (IF Head(ts).type = "tool" /\ Head(ts).name \in Tools
             /\ Head(ts).name \notin allowed.names
          THEN <<Head(ts).name>> ELSE <<>>) \o BlockedTasks(Tail(ts), allowed)

RECURSIVE BlockedOutputs(_)
BlockedOutputs(outs) ==
    IF outs = <<>> THEN <<>>
    ELSE (IF Head(outs).kind = "tool_blocked" THEN <<Head(outs).name>> ELSE <<>>)
         \o BlockedOutputs(Tail(outs))

\* C18: when allowed_tools is given, no tool outside it is invoked by any
\* sequence of Thoughts or of tasks; no observation, tool text, output or
\* LLM prompt carries a result of such a tool; a Thought naming such a tool
\* gives an error result whose observation is appended to the history, and
\* a task naming such a registered tool gives a tool_blocked output; and the
\* loop goes on to its next step.
C18_OnlyAllowedInvoked ==
    allowed_tools.given =>
        /\ \A i \in 1..Len(invoked) : invoked[i] \in allowed_tools.names
        /\ \A name \in ToolNames \ allowed_tools.names :
              /\ \A i \in 1..Len(history) : ~CarriesResult(history[i], name)
              /\ \A i \in 1..Len(tool_texts) : ~CarriesResult(tool_texts[i], name)
              /\ \A i \in 1..Len(prompts) : ~CarriesResult(prompts[i], name)
        /\ \A i \in 1..Len(outputs) :
              outputs[i].kind = "tool" => outputs[i].name \in allowed_tools.names
        /\ (react_pc \in {"acted", "loop", "raised"} /\ iteration > 0
              /\ NamesBlocked(thought, allowed_tools)) =>
              /\ action_result.type = "error"
              /\ ~action_result.called
              /\ react_pc # "raised"
              /\ react_pc = "loop" =>
                    /\ Len(history) = iteration
                    /\ history[iteration] =
                          ErrorLabel \o ToolPrefix
                          \o SearchAction(thought).tool_name \o NotAllowed
        /\ executor_pc # "idle" =>
              /\ BlockedOutputs(outputs)
                    = BlockedTasks(SubSeq(tasks, 1, task_index), allowed_tools)
              /\ (executor_pc = "raised" => tasks[task_index].type = "llm")

\* A run has blocked a Thought's tool, observed the error and gone on to call
\* an allowed tool, whose result is in the history; or execute has blocked
\* a task and gone on to call an allowed tool and then the LLM.
C18_Witness ==
    /\ allowed_tools.given
    /\ \/ /\ react_pc = "loop"
          /\ Len(history) = 2
          /\ StartsWith(history[1], ErrorLabel \o ToolPrefix \o RmTool \o NotAllowed)
          /\ CarriesResult(history[2], GoTool)
          /\ invoked = <<GoTool>>
       \/ /\ executor_pc = "returned"
          /\ BlockedOutputs(outputs) = <<RmTool>>
          /\ invoked = <<GoTool>>
          /\ Len(prompts) = 1
          /\ CarriesResult(prompts[1], GoTool)
          /\ tasks[1].name = RmTool

(***************************************************************************)
(* source_code/memory_core.py: TokenCounter and DynamicMemoryCore           *)
(***************************************************************************)
BaseOverhead == 6

\* TokenCounter.count without an encoding (lines 35-47): int(len(text) / 2.5).
count(s) == IF s = <<>> THEN 0 ELSE (2 * Len(s)) \div 5

\* TokenCounter.count_messages (lines 49-55).
RECURSIVE count_messages(_)
count_messages(msgs) ==
    IF msgs = <<>> THEN 0
    ELSE BaseOverhead + count(Head(msgs).content) + count_messages(Tail(msgs))

\* __init__, lines 74-78: int(max_context_tokens * 0.2) of a max_context_tokens
\* that is not negative.
MemoryCore(max_tokens, prompt, turns, llm) ==
    LET system_prompt_tokens == count(prompt)
        reserved_tokens      == max_tokens \div 5 + system_prompt_tokens
    IN  [max_context_tokens   |-> max_tokens,
         system_prompt_tokens |-> system_prompt_tokens,
         reserved_tokens      |-> reserved_tokens,
         available_tokens     |-> max_tokens - reserved_tokens,
         near_field_turns     |-> turns,
         llm                  |-> llm]

\* _group_messages_by_turns (lines 166-185): the loop from pairs and
\* current_pair on, and the function.
RECURSIVE GroupFrom(_, _, _)
GroupFrom(msgs, pairs, current_pair) ==
    IF msgs = <<>>
    THEN IF current_pair # <<>> THEN Append(pairs, current_pair) ELSE pairs
    ELSE LET msg == Head(msgs)
         IN  IF msg.role = "user"
             THEN GroupFrom(Tail(msgs),
                            IF current_pair # <<>> THEN Append(pairs, current_pair)
                            ELSE pairs,
                            <<msg>>)
             ELSE IF msg.role = "assistant" /\ current_pair # <<>>
             THEN GroupFrom(Tail(msgs), Append(pairs, Append(current_pair, msg)), <<>>)
             ELSE GroupFrom(Tail(msgs), pairs, current_pair)

group_messages_by_turns(msgs) == GroupFrom(msgs, <<>>, <<>>)

\* [msg for pair in pairs for msg in pair]
RECURSIVE Flatten(_)
Flatten(pairs) == IF pairs = <<>> THEN <<>> ELSE Head(pairs) \o Flatten(Tail(pairs))

\* Lines 108-109 for near_field_turns >= 0: message_pairs[-n:] and
\* message_pairs[:-n], where -0 is 0.
NearField(message_pairs, n) ==
    IF Len(message_pairs) > n /\ n > 0
    THEN SubSeq(message_pairs, Len(message_pairs) - n + 1, Len(message_pairs))
    ELSE message_pairs

FarField(message_pairs, n) ==
    IF Len(message_pairs) > n /\ n > 0
    THEN SubSeq(message_pairs, 1, Len(message_pairs) - n)
    ELSE <<>>

\* _format_messages (lines 223-236).
UserLabel == <<"U", "s", "e", "r", ":", SP>>
AILabel == <<"A", "I", ":", SP>>
SystemLabel == <<"[", "S", "y", "s", "t", "e", "m", "]", SP>>

RECURSIVE Formatted(_)
Formatted(msgs) ==
    IF msgs = <<>> THEN <<>>
    ELSE LET msg == Head(msgs)
         IN  (IF msg.role = "user" THEN <<UserLabel \o msg.content>>
              ELSE IF msg.role = "assistant" THEN <<AILabel \o msg.content>>
              ELSE IF msg.role = "system" THEN <<SystemLabel \o msg.content>>
              ELSE <<>>) \o Formatted(Tail(msgs))

format_messages(msgs) == StrJoin(Formatted(msgs), NL1)

\* _compress_far_field, line 218: the summary returned for the LLM's reply.
SummaryLabel ==
    <<"[", "C", "o", "n", "v", "e", "r", "s", "a", "t", "i", "o", "n", SP,
      "H", "i", "s", "t", "o", "r", "y", SP, "S", "u", "m", "m", "a", "r", "y",
      "]", SP>>

\* The loop body of lines 120-126 with the pair skipped where the code
\* breaks.
SelectPairSkipping(selected_pairs, selected_tokens, pair, remaining_tokens) ==
    LET pair_tokens == count_messages(pair)
    IN  IF selected_tokens + pair_tokens <= remaining_tokens
        THEN [selected_pairs  |-> <<pair>> \o selected_pairs,
              selected_tokens |-> selected_tokens + pair_tokens,
              break           |-> FALSE]
        ELSE [selected_pairs  |-> selected_pairs,
              selected_tokens |-> selected_tokens,
              break           |-> FALSE]

\* The loop body of lines 120-126.
SelectPair(selected_pairs, selected_tokens, pair, remaining_tokens) ==
    LET pair_tokens == count_messages(pair)
    IN  IF selected_tokens + pair_tokens <= remaining_tokens
        THEN [selected_pairs  |-> <<pair>> \o selected_pairs,
              selected_tokens |-> selected_tokens + pair_tokens,
              break           |-> FALSE]
        ELSE [selected_pairs  |-> selected_pairs,
              selected_tokens |-> selected_tokens,
              break           |-> TRUE]

(***************************************************************************)
(* DynamicMemoryCore.build_context_prompt as a state machine (lines 82-164) *)
(***************************************************************************)
MaxMessages == 4

\* The arguments: context windows, prompts and contents by their lengths,
\* the near-field turns, and the replies of the LLM to the summary prompt.
Filler(n) == [k \in 1..n |-> "a"]

ContextWindows == {0, 10, 20, 40, 80}
SystemPrompts == {Filler(3)}
UserInputs == {<<>>, Filler(5)}
MessageContents == {Filler(3), Filler(10)}
NearFieldTurns == {0, 1, 2}
Summaries == {<<>>, Filler(20)}

Message(role, content) == [role |-> role, content |-> content]

MessageKinds ==
    {Message(role, content) : role \in {"user", "assistant"}, content \in MessageContents}
    \cup {Message("system", Filler(3))}

MessageLists == UNION {[1..n -> MessageKinds] : n \in 0..MaxMessages}

besideMemory == <<chunkerVars, reactVars, toolVars, executorVars>>

BesideMemoryIdle == ChunkerIdle /\ ReactIdle /\ ToolsIdle /\ ExecutorIdle

InitMemory ==
    /\ BesideMemoryIdle
    /\ \E max_tokens \in ContextWindows, prompt \in SystemPrompts,
          turns \in NearFieldTurns, llm \in BOOLEAN :
          memory = MemoryCore(max_tokens, prompt, turns, llm)
    /\ user_input \in UserInputs
    /\ messages \in MessageLists
    /\ memory_pc = "called"
    /\ build = NoBuild
    /\ context_text = <<>>
    /\ metadata = NoMetadata

Metadata(strategy, messages_tokens, remaining_tokens) ==
    [strategy |-> strategy, messages_tokens |-> messages_tokens,
     remaining_tokens |-> remaining_tokens]

\* Lines 93-116 and 135-138: the budget, the early return, the near and the
\* far field, and the branch taken.
BuildEnter ==
    /\ memory_pc = "called"
    /\ LET remaining_tokens  == memory.available_tokens - count(user_input)
           message_pairs     == group_messages_by_turns(messages)
           near_field_pairs  == NearField(message_pairs, memory.near_field_turns)
           far_field_pairs   == FarField(message_pairs, memory.near_field_turns)
           near_field_tokens == count_messages(Flatten(near_field_pairs))
       IN  IF remaining_tokens <= 0
           THEN /\ memory_pc' = "returned"
                /\ context_text' = <<>>
                /\ metadata' = Metadata("input_too_large", 0, remaining_tokens)
                /\ build' = [build EXCEPT !.remaining_tokens = remaining_tokens]
           ELSE /\ memory_pc' =
                      IF near_field_tokens > remaining_tokens THEN "select"
                      ELSE IF /\ remaining_tokens - near_field_tokens > 0
                              /\ far_field_pairs # <<>>
                              /\ memory.llm
                      THEN "compress"
                      ELSE "near_field"
                /\ build' = [remaining_tokens  |-> remaining_tokens,
                             near_field_pairs  |-> near_field_pairs,
                             far_field_pairs   |-> far_field_pairs,
                             near_field_tokens |-> near_field_tokens,
                             selected_pairs    |-> <<>>,
                             selected_tokens   |-> 0,
                             unvisited         |-> Len(near_field_pairs)]
                /\ UNCHANGED <<context_text, metadata>>
    /\ UNCHANGED <<memory, user_input, messages, besideMemory>>

\* Lines 120-126: one iteration of the loop over reversed(near_field_pairs).
BuildSelect ==
    /\ memory_pc = "select"
    /\ build.unvisited > 0
    /\ LET step == SelectPair(build.selected_pairs, build.selected_tokens,
                              build.near_field_pairs[build.unvisited],
                              build.remaining_tokens)
       IN  build' = [build EXCEPT !.selected_pairs = step.selected_pairs,
                                  !.selected_tokens = step.selected_tokens,
                                  !.unvisited = IF step.break THEN 0 ELSE @ - 1]
    /\ UNCHANGED <<memory, user_input, messages, memory_pc, context_text, metadata,
                   besideMemory>>

\* Lines 128-135: the loop is over.
BuildPartial ==
    /\ memory_pc = "select"
    /\ build.unvisited = 0
    /\ context_text' = format_messages(Flatten(build.selected_pairs))
    /\ metadata' = Metadata("near_field_partial", build.selected_tokens,
                            build.remaining_tokens - build.selected_tokens)
    /\ memory_pc' = "returned"
    /\ UNCHANGED <<memory, user_input, messages, build, besideMemory>>

\* Lines 140-156: the LLM replies with a summary that fits, or with one
\* that does not fit, or it raises and _compress_far_field returns None.
BuildCompress ==
    /\ memory_pc = "compress"
    /\ LET remaining_after_near == build.remaining_tokens - build.near_field_tokens
       IN  \/ \E summary \in Summaries :
                LET compressed_summary == SummaryLabel \o summary
                    summary_tokens     == count(compressed_summary)
                IN  IF summary_tokens <= remaining_after_near
                    THEN /\ context_text' =
                               format_messages(
                                   Flatten(build.near_field_pairs)
                                   \o <<Message("system", compressed_summary)>>)
                         /\ metadata' =
                               Metadata("near_field_full_with_far_field_compressed",
                                        build.near_field_tokens + summary_tokens,
                                        build.remaining_tokens - build.near_field_tokens
                                            - summary_tokens)
                         /\ memory_pc' = "returned"
                    ELSE /\ memory_pc' = "near_field"
                         /\ UNCHANGED <<context_text, metadata>>
           \/ /\ memory_pc' = "near_field"
              /\ UNCHANGED <<context_text, metadata>>
    /\ UNCHANGED <<memory, user_input, messages, build, besideMemory>>

\* Lines 158-164.
BuildNearField ==
    /\ memory_pc = "near_field"
    /\ context_text' = format_messages(Flatten(build.near_field_pairs))
    /\ metadata' = Metadata("near_field_only", build.near_field_tokens,
                            build.remaining_tokens - build.near_field_tokens)
    /\ memory_pc' = "returned"
    /\ UNCHANGED <<memory, user_input, messages, build, besideMemory>>

NextMemory ==
    \/ BuildEnter
    \/ BuildSelect
    \/ BuildPartial
    \/ BuildCompress
    \/ BuildNearField

SpecMemory == InitMemory /\ [][NextMemory]_vars

(***************************************************************************)
(* C19: the token budget                                                    *)
(***************************************************************************)
\* The budget left after the reserve and the user input.
Budget == memory.available_tokens - count(user_input)

\* part is a contiguous suffix of whole.
IsSuffix(part, whole) ==
    /\ Len(part) <= Len(whole)
    /\ part = SubSeq(whole, Len(whole) - Len(part) + 1, Len(whole))

\* The near-field turns of the call.
NearFieldOfCall ==
    NearField(group_messages_by_turns(messages), memory.near_field_turns)

\* C19: build_context_prompt returns an empty context and messages_tokens 0
\* under 'input_too_large'; under every other strategy the reported
\* messages_tokens is at most available_tokens - tokens(user_input) and the
\* reported remaining_tokens is not negative; and under 'near_field_partial'
\* the retained turns are a contiguous suffix of the near-field turns, whose
\* messages make the context and whose tokens are the reported ones.
C19_WithinBudget ==
    memory_pc = "returned" =>
        IF metadata.strategy = "input_too_large"
        THEN /\ context_text = <<>>
             /\ metadata.messages_tokens = 0
        ELSE /\ metadata.messages_tokens <= Budget
             /\ metadata.remaining_tokens >= 0
             /\ metadata.remaining_tokens = Budget - metadata.messages_tokens
             /\ metadata.strategy = "near_field_partial" =>
                   /\ IsSuffix(build.selected_pairs, NearFieldOfCall)
                   /\ metadata.messages_tokens
                         = count_messages(Flatten(build.selected_pairs))
                   /\ context_text = format_messages(Flatten(build.selected_pairs))

\* A call has returned 'near_field_partial' with the most recent of three
\* near-field turns kept and an older turn, smaller than the budget left,
\* dropped behind a turn that did not fit.
C19_Witness ==
    /\ memory_pc = "returned"
    /\ metadata.strategy = "near_field_partial"
    /\ Len(NearFieldOfCall) = 3
    /\ Len(build.selected_pairs) = 1
    /\ count_messages(NearFieldOfCall[1]) <= metadata.remaining_tokens
    /\ count_messages(NearFieldOfCall[2]) > metadata.remaining_tokens
    /\ metadata.messages_tokens > 0

=============================================================================
